---- MODULE Spec2Model ----
(***************************************************************************)
(* Heart-risk prediction service (src/app.py): the feature normalizer      *)
(* process_input_value, the /predict handler and its risk-level mapping.   *)
(*                                                                         *)
(* Python floats are modelled as exact rationals n/d in lowest terms plus  *)
(* the three special values inf, -inf and nan.  Python strings are TLA+    *)
(* strings, read character by character with SubSeq.                       *)
(***************************************************************************)
EXTENDS Integers, Sequences, FiniteSets, TLC

(***************************************************************************)
(* Bounds of the model.                                                    *)
(***************************************************************************)
\* requests in flight at once
NumReq == 2
\* integer inputs handed to the normalizer range over -MaxRaw .. MaxRaw
MaxRaw == 320
\* probabilities handed to the risk mapping are k/ProbDen, k in 0..ProbDen
ProbDen == 1000

(***************************************************************************)
(* Floats.                                                                 *)
(***************************************************************************)
Abs(n) == IF n < 0 THEN -n ELSE n

RECURSIVE Gcd(_, _)
Gcd(a, b) == IF b = 0 THEN a ELSE Gcd(b, a % b)

RECURSIVE Pow10(_)
Pow10(e) == IF e = 0 THEN 1 ELSE 10 * Pow10(e - 1)

\* the finite float n/d (d > 0), in lowest terms
Fin(n, d) == [n |-> n \div Gcd(Abs(n), d), d |-> d \div Gcd(Abs(n), d)]

\* the special values have d = 0
Inf == [n |-> 1, d |-> 0]
NegInf == [n |-> -1, d |-> 0]
NaN == [n |-> 0, d |-> 0]

IsFinite(x) == x.d # 0
IsNaN(x) == x.d = 0 /\ x.n = 0
IsInf(x) == x.d = 0 /\ x.n # 0

\* a < b on floats; every comparison with nan is false
FLt(a, b) ==
    CASE IsNaN(a) \/ IsNaN(b) -> FALSE
      [] IsInf(a) /\ IsInf(b) -> a.n < b.n
      [] IsInf(a) -> a.n < 0
      [] IsInf(b) -> b.n > 0
      [] OTHER -> a.n * b.d < b.n * a.d

\* a <= b
FLe(a, b) ==
    CASE IsNaN(a) \/ IsNaN(b) -> FALSE
      [] OTHER -> ~FLt(b, a)

\* a - b
FSub(a, b) ==
    CASE IsNaN(a) \/ IsNaN(b) -> NaN
      [] IsInf(a) /\ IsInf(b) -> IF a.n = b.n THEN NaN ELSE a
      [] IsInf(a) -> a
      [] IsInf(b) -> IF b.n > 0 THEN NegInf ELSE Inf
      [] OTHER -> Fin(a.n * b.d - b.n * a.d, a.d * b.d)

\* a / b for a finite, non-zero b
FDiv(a, b) ==
    CASE IsNaN(a) -> NaN
      [] IsInf(a) -> IF b.n < 0 THEN [a EXCEPT !.n = -a.n] ELSE a
      [] OTHER -> IF b.n < 0 THEN Fin(-(a.n * b.d), a.d * (-b.n))
                             ELSE Fin(a.n * b.d, a.d * b.n)

\* Python's min(a, b) and max(a, b): the first argument unless the second
\* compares smaller (larger); a nan second argument never does
PyMin(a, b) == IF FLt(b, a) THEN b ELSE a
PyMax(a, b) == IF FLt(a, b) THEN b ELSE a

(***************************************************************************)
(* Python values as a JSON body delivers them: <<type, payload>>.          *)
(***************************************************************************)
None == <<"none">>
PyBool(b) == <<"bool", b>>
PyInt(n) == <<"int", n>>
PyFloat(x) == <<"float", x>>
PyStr(text) == <<"str", text>>
\* a JSON array or object nested in the body, with its str() rendering
PyList(text) == <<"list", text>>

TypeOf(value) == value[1]

(***************************************************************************)
(* Strings.                                                                *)
(***************************************************************************)
Char(s, i) == SubSeq(s, i, i)

Digits == "0123456789"
UpperCase == "ABCDEFGHIJKLMNOPQRSTUVWXYZ"
LowerCase == "abcdefghijklmnopqrstuvwxyz"

\* the index of the first c in s at or after i, 0 when there is none
RECURSIVE FindFrom(_, _, _)
FindFrom(s, c, i) ==
    IF i > Len(s) THEN 0
    ELSE IF Char(s, i) = c THEN i
    ELSE FindFrom(s, c, i + 1)

\* the index of character c in s, 0 when absent
Find(s, c) == FindFrom(s, c, 1)

\* each upper-case letter's lower-case letter, each digit's value
LowerOf ==
    [c \in {Char(UpperCase, i) : i \in 1..Len(UpperCase)} |->
        Char(LowerCase, Find(UpperCase, c))]

DigitOf ==
    [c \in {Char(Digits, i) : i \in 1..Len(Digits)} |-> Find(Digits, c) - 1]

LowerChar(c) == IF c \in DOMAIN LowerOf THEN LowerOf[c] ELSE c

\* str.lower()
RECURSIVE lower(_)
lower(s) == IF Len(s) = 0 THEN "" ELSE LowerChar(Char(s, 1)) \o lower(Tail(s))

IsSpace(c) == c \in {" ", "\t", "\n", "\r"}

RECURSIVE LStrip(_)
LStrip(s) == IF Len(s) > 0 /\ IsSpace(Char(s, 1)) THEN LStrip(Tail(s)) ELSE s

RECURSIVE RStrip(_)
RStrip(s) ==
    IF Len(s) > 0 /\ IsSpace(Char(s, Len(s)))
    THEN RStrip(SubSeq(s, 1, Len(s) - 1)) ELSE s

Strip(s) == RStrip(LStrip(s))

IsDigits(s) == \A i \in 1..Len(s) : Char(s, i) \in DOMAIN DigitOf

RECURSIVE DigitsVal(_)
DigitsVal(s) ==
    IF Len(s) = 0 THEN 0
    ELSE 10 * DigitsVal(SubSeq(s, 1, Len(s) - 1))
         + DigitOf[Char(s, Len(s))]

RECURSIVE NatStr(_)
NatStr(n) ==
    IF n < 10 THEN Char(Digits, n + 1)
    ELSE NatStr(n \div 10) \o Char(Digits, (n % 10) + 1)

\* str(n) for an int
IntStr(n) == IF n < 0 THEN "-" \o NatStr(-n) ELSE NatStr(n)

RECURSIVE FracStr(_, _)
FracStr(rem, d) ==
    IF rem = 0 THEN ""
    ELSE Char(Digits, ((rem * 10) \div d) + 1) \o FracStr((rem * 10) % d, d)

\* the digits of a finite float: sign, integer part, ".", fraction
FiniteStr(x) ==
    (IF x.n < 0 THEN "-" ELSE "") \o NatStr(Abs(x.n) \div x.d) \o "."
    \o (IF Abs(x.n) % x.d = 0 THEN "0" ELSE FracStr(Abs(x.n) % x.d, x.d))

\* repr(x) for a float whose decimal expansion is short (no exponent form)
FloatStr(x) ==
    CASE IsNaN(x) -> "nan"
      [] IsInf(x) -> IF x.n > 0 THEN "inf" ELSE "-inf"
      [] OTHER -> FiniteStr(x)

\* str(value)
str(value) ==
    CASE TypeOf(value) = "none" -> "None"
      [] TypeOf(value) = "bool" -> IF value[2] THEN "True" ELSE "False"
      [] TypeOf(value) = "int" -> IntStr(value[2])
      [] TypeOf(value) = "float" -> FloatStr(value[2])
      [] OTHER -> value[2]

(***************************************************************************)
(* float(value) and int(x): the result, or the exception raised.           *)
(***************************************************************************)
Ok(x) == [exc |-> "", f |-> x]
Raise(e) == [exc |-> e, f |-> NaN]

\* the value sign * n * 10^e of a decimal literal; beyond the float range inf
DecimalValue(n, e, sign) ==
    CASE n = 0 -> Ok(Fin(0, 1))
      [] e + Len(NatStr(n)) > 309 -> Ok(IF sign < 0 THEN NegInf ELSE Inf)
      [] e >= 0 -> Ok(Fin(sign * n * Pow10(e), 1))
      [] OTHER -> Ok(Fin(sign * n, Pow10(-e)))

\* integer part ip, fraction fp, exponent digits eDig of sign eSign
DecimalFields(ip, fp, eDig, eSign, sign) ==
    IF /\ IsDigits(ip) /\ IsDigits(fp) /\ Len(ip) + Len(fp) > 0
       /\ IsDigits(eDig) /\ Len(eDig) > 0
    THEN DecimalValue(DigitsVal(ip \o fp), eSign * DigitsVal(eDig) - Len(fp),
                      sign)
    ELSE Raise("ValueError")

\* mantissa with its "." at index dot (0: none) and the exponent text
DecimalParts(mant, dot, expo, sign) ==
    DecimalFields(IF dot = 0 THEN mant ELSE SubSeq(mant, 1, dot - 1),
                  IF dot = 0 THEN "" ELSE SubSeq(mant, dot + 1, Len(mant)),
                  IF Len(expo) > 0 /\ Char(expo, 1) \in {"+", "-"}
                  THEN Tail(expo) ELSE expo,
                  IF Len(expo) > 0 /\ Char(expo, 1) = "-" THEN -1 ELSE 1,
                  sign)

\* the literal split at its "e", at index ePos (0: no exponent)
DecimalSplit(body, ePos, sign) ==
    IF ePos = 0
    THEN DecimalParts(body, Find(body, "."), "0", sign)
    ELSE DecimalParts(SubSeq(body, 1, ePos - 1),
                      Find(SubSeq(body, 1, ePos - 1), "."),
                      SubSeq(body, ePos + 1, Len(body)), sign)

\* the unsigned decimal literal m [e exponent], m = digits [. digits]
ParseDecimal(body, sign) == DecimalSplit(body, Find(body, "e"), sign)

\* the text after the sign
ParseUnsigned(body, sign) ==
    CASE body \in {"inf", "infinity"} -> Ok(IF sign < 0 THEN NegInf ELSE Inf)
      [] body = "nan" -> Ok(NaN)
      [] OTHER -> ParseDecimal(body, sign)

\* the stripped, lowercased text t
ParseSigned(t) ==
    IF Len(t) > 0 /\ Char(t, 1) \in {"+", "-"}
    THEN ParseUnsigned(Tail(t), IF Char(t, 1) = "-" THEN -1 ELSE 1)
    ELSE ParseUnsigned(t, 1)

\* float(s) for a str: surrounding whitespace, a sign, then inf, infinity,
\* nan (any case) or a decimal literal
ParseFloat(s) == ParseSigned(lower(Strip(s)))

\* float(value)
float(value) ==
    CASE TypeOf(value) = "bool" -> Ok(Fin(IF value[2] THEN 1 ELSE 0, 1))
      [] TypeOf(value) = "int" -> Ok(Fin(value[2], 1))
      [] TypeOf(value) = "float" -> Ok(value[2])
      [] TypeOf(value) = "str" -> ParseFloat(value[2])
      [] OTHER -> Raise("TypeError")

\* int(x) for a float: truncation toward zero
IntOf(x) ==
    CASE IsNaN(x) -> [exc |-> "ValueError", i |-> 0]
      [] IsInf(x) -> [exc |-> "OverflowError", i |-> 0]
      [] OTHER -> [exc |-> "",
                   i |-> IF x.n < 0 THEN -((-x.n) \div x.d) ELSE x.n \div x.d]

(***************************************************************************)
(* Module state of app.py and the harness state.                           *)
(***************************************************************************)
VARIABLES
    \* module globals
    model,              \* "None", or the estimator joblib loaded
    MODEL_FEATURES,     \* the feature names in the model's order
    SCALERS,            \* per-feature range or category table
    phase,              \* "startup" while the module body runs, then "serving"
    \* the clients: which requests are sent, and the bodies they may carry
    workload,
    \* per /predict request: position, the body sent (its name in
    \* BodyOf) and the locals of predict
    pc, body, data, idx, input_vector, input_array,
    response,
    \* per request, what was observed of the model: the operations invoked on
    \* input_array, and the message of the exception a model operation raised
    invoked, raised,
    \* the estimator's behaviour, revealed call by call: it is stateless, so
    \* what each operation does is a fixed function of the vector submitted
    behaviour,
    \* normalizer harness: one call of process_input_value
    arg_value, arg_feature, ret,
    \* risk-mapping harness: one evaluation of the threshold chain
    prob_in, level_out

globals == <<model, MODEL_FEATURES, SCALERS>>
locals == <<data, idx, input_vector, input_array>>
req_vars == <<pc, body, locals, response, invoked, raised>>
oracle_vars == <<behaviour>>
norm_vars == <<arg_value, arg_feature, ret>>
risk_vars == <<prob_in, level_out>>
vars ==
    <<globals, phase, workload, req_vars, oracle_vars, norm_vars, risk_vars>>

Req == 1..NumReq

Zero == Fin(0, 1)
One == Fin(1, 1)

\* MODEL_FEATURES as the module body assigns it
ModelFeatures ==
    << "General_Health", "Checkup", "Exercise", "Skin_Cancer", "Other_Cancer",
       "Depression", "Diabetes", "Arthritis", "Sex", "Age", "Height", "Weight",
       "BMI", "Smoking", "Alcohol", "Fruit", "Green_Vegetables", "Fried_Potato" >>

\* SCALERS as the module body assigns it
Scalers ==
    [ Weight |-> [min |-> 30, max |-> 300],
      Height |-> [min |-> 90, max |-> 250],
      BMI |-> [min |-> 10, max |-> 100],
      Age |-> [min |-> 18, max |-> 80],
      Fruit |-> [min |-> 0, max |-> 100],
      Green_Vegetables |-> [min |-> 0, max |-> 100],
      Fried_Potato |-> [min |-> 100, max |-> 0],
      Alcohol |-> [min |-> 30, max |-> 0],
      General_Health |->
          ("Excellent" :> Fin(1, 1) @@ "Very_Good" :> Fin(75, 100)
           @@ "Good" :> Fin(5, 10) @@ "Fair" :> Fin(25, 100)
           @@ "Poor" :> Fin(0, 1)),
      Checkup |->
          ("Within 1 year" :> Fin(1, 1) @@ "1-2 years" :> Fin(75, 100)
           @@ "2-5 years" :> Fin(5, 10) @@ "5+ years" :> Fin(25, 100)
           @@ "Never" :> Fin(0, 1)),
      Diabetes |->
          ("No" :> Fin(0, 1) @@ "Borderline" :> Fin(33, 100)
           @@ "During Pregnancy" :> Fin(66, 100) @@ "Yes" :> Fin(1, 1)),
      Sex |-> ("0" :> Fin(1, 1) @@ "1" :> Fin(0, 1)),
      Exercise |-> ("0" :> Fin(0, 1) @@ "1" :> Fin(1, 1)),
      Smoking |-> ("0" :> Fin(0, 1) @@ "1" :> Fin(1, 1)) ]

(***************************************************************************)
(* process_input_value: the float returned, or the exception that escapes. *)
(***************************************************************************)
\* val is float(value), or the exception it raised
ScaleParsedUnclamped(val, config) ==
    IF val.exc # "" \/ config.max = config.min
    THEN Ok(Zero)
    ELSE Ok(FDiv(FSub(val.f, Fin(config.min, 1)),
                 Fin(config.max - config.min, 1)))

\* ScaleParsed measuring from the smaller end of the range, whatever its order
ScaleParsedAscending(val, config) ==
    IF val.exc # "" \/ config.max = config.min
    THEN Ok(Zero)
    ELSE IF config.min < config.max
    THEN Ok(PyMax(Zero, PyMin(One,
             FDiv(FSub(val.f, Fin(config.min, 1)),
                  Fin(config.max - config.min, 1)))))
    ELSE Ok(PyMax(Zero, PyMin(One,
             FDiv(FSub(val.f, Fin(config.max, 1)),
                  Fin(config.min - config.max, 1)))))

\* the try block of the range branch and its bare except: val is
\* float(value), or the exception it raised
ScaleParsed(val, config) ==
    IF val.exc # "" \/ config.max = config.min
    THEN Ok(Zero)
    ELSE Ok(PyMax(Zero, PyMin(One,
             FDiv(FSub(val.f, Fin(config.min, 1)),
                  Fin(config.max - config.min, 1)))))

\* numeric range scaling
ScaleRange(value, config) == ScaleParsed(float(value), config)

\* the boolean fallback inside the categorical branch
CategoryBoolean(val_str) ==
    IF val_str \in {"on", "true", "yes"} THEN Ok(One)
    ELSE IF val_str \in {"off", "false", "no"} THEN Ok(Zero)
    ELSE Ok(Zero)

\* int(x) of the float parsed, or the exception either step raised
IntOfParsed(val) ==
    IF val.exc = "" THEN IntOf(val.f) ELSE [exc |-> val.exc, i |-> 0]

\* the numeric-string fallback inside try / except: whole is
\* int(float(value)), or the exception raised
MapTruncated(whole, val_str, config) ==
    IF whole.exc = "" /\ IntStr(whole.i) \in DOMAIN config
    THEN Ok(config[IntStr(whole.i)])
    ELSE CategoryBoolean(val_str)

\* LookupCategory looking the lowercased string up instead of str(value)
LookupCategoryLowered(key, value, val_str, config) ==
    IF val_str \in DOMAIN config
    THEN Ok(config[val_str])
    ELSE MapTruncated(IntOfParsed(float(value)), val_str, config)

\* exact match of key = str(value) first, then the fallbacks
LookupCategory(key, value, val_str, config) ==
    IF key \in DOMAIN config
    THEN Ok(config[key])
    ELSE MapTruncated(IntOfParsed(float(value)), val_str, config)

\* categorical logic
MapCategory(value, val_str, config) ==
    LookupCategory(str(value), value, val_str, config)

\* the raw number parsed, else the final boolean fallback
PassParsed(val, val_str) ==
    IF val.exc = "" THEN Ok(val.f)
    ELSE IF val_str \in {"on", "true", "yes"} THEN Ok(One)
    ELSE IF val_str \in {"off", "false", "no", "0"} THEN Ok(Zero)
    ELSE Ok(Zero)

\* no entry in SCALERS
PassRaw(value, val_str) == PassParsed(float(value), val_str)

\* the branch taken for config = SCALERS[feature_name]
Scale(value, val_str, config) ==
    IF "min" \in DOMAIN config
    THEN ScaleRange(value, config)
    ELSE MapCategory(value, val_str, config)

process_input_value(value, feature_name) ==
    IF feature_name \in DOMAIN SCALERS
    THEN Scale(value, lower(str(value)), SCALERS[feature_name])
    ELSE PassRaw(value, lower(str(value)))

(***************************************************************************)
(* The probability-to-risk-level chain of predict.  A probability is a     *)
(* finite float; the thresholds are the literals of the source.            *)
(***************************************************************************)
\* the chain with strict comparisons
RiskLevelStrict(prob) ==
    IF FLt(prob, Fin(30, 100)) THEN 1
    ELSE IF FLt(prob, Fin(45, 100)) THEN 2
    ELSE IF FLt(prob, Fin(60, 100)) THEN 3
    ELSE IF FLt(prob, Fin(80, 100)) THEN 4
    ELSE 5

RiskLevel(prob) ==
    IF FLe(prob, Fin(30, 100)) THEN 1
    ELSE IF FLe(prob, Fin(45, 100)) THEN 2
    ELSE IF FLe(prob, Fin(60, 100)) THEN 3
    ELSE IF FLe(prob, Fin(80, 100)) THEN 4
    ELSE 5

(***************************************************************************)
(* Inputs of the harnesses.                                                *)
(***************************************************************************)
Labels ==
    UNION {DOMAIN Scalers[f] : f \in {"General_Health", "Checkup", "Diabetes",
                                      "Sex", "Exercise", "Smoking"}}

Tokens ==
    {"on", "off", "true", "false", "yes", "no", "ON", "True", "False", "YES",
     "Off", "no ", "1.0", "0.0", "1.9", "0.9", "-0.5", "2", " 1 ", "1e0",
     "+1", "inf", "-inf", "nan", "Infinity", "NaN", "1e999", "abc", "",
     "excellent", "Very Good", "never", "None", "42", "42.5", "150", "-7",
     "1,5", "0x10"}

Numbers ==
    {PyInt(n) : n \in -MaxRaw..MaxRaw}
    \cup {PyFloat(Fin(2 * n + 1, 2)) : n \in -MaxRaw..MaxRaw}
    \cup {PyFloat(Fin(n, 1)) : n \in {0, 1, 2}}

Values ==
    {None, PyBool(TRUE), PyBool(FALSE), PyList("[1]"), PyList("{}"),
     PyFloat(Inf), PyFloat(NegInf), PyFloat(NaN)}
    \cup Numbers
    \cup {PyStr(s) : s \in Labels \cup Tokens}

Probabilities == {Fin(k, ProbDen) : k \in 0..ProbDen}

NotCalled == [exc |-> "pending", f |-> NaN]

(***************************************************************************)
(* Request bodies.  A JSON object is the sequence of its members in the    *)
(* order sent; request.json turns it into a dict.                          *)
(***************************************************************************)
Object(items) == [kind |-> "object", items |-> items]

HealthyItems ==
    << <<"General_Health", PyStr("Excellent")>>,
       <<"Checkup", PyStr("Within 1 year")>>,
       <<"Exercise", PyStr("1")>>,
       <<"Skin_Cancer", PyInt(0)>>,
       <<"Other_Cancer", PyInt(0)>>,
       <<"Depression", PyBool(FALSE)>>,
       <<"Diabetes", PyStr("No")>>,
       <<"Arthritis", PyStr("off")>>,
       <<"Sex", PyStr("0")>>,
       <<"Age", PyInt(18)>>,
       <<"Height", PyInt(170)>>,
       <<"Weight", PyFloat(Fin(131, 2))>>,
       <<"BMI", PyStr("22.5")>>,
       <<"Smoking", PyStr("0")>>,
       <<"Alcohol", PyInt(0)>>,
       <<"Fruit", PyInt(60)>>,
       <<"Green_Vegetables", PyInt(30)>>,
       <<"Fried_Potato", PyInt(4)>> >>

RECURSIVE Reverse(_)
Reverse(seq) ==
    IF seq = << >> THEN << >> ELSE Append(Reverse(Tail(seq)), Head(seq))

\* the same members sent in the opposite order, after a key the model does
\* not know and an earlier duplicate of one member (the last one sent wins)
ShuffledItems ==
    << <<"Age", PyInt(77)>>, <<"Shoe_Size", PyInt(43)>> >>
    \o Reverse(HealthyItems)

\* few keys, loosely typed values
SparseItems ==
    << <<"Sex", PyInt(1)>>,
       <<"Skin_Cancer", PyStr("on")>>,
       <<"Age", PyStr("abc")>>,
       <<"Alcohol", PyInt(15)>>,
       <<"Depression", PyStr("inf")>>,
       <<"General_Health", PyStr("1")>>,
       <<"Weight", None>> >>

\* every key present, values in loose spellings and out of range
LooseItems ==
    << <<"General_Health", PyStr("yes")>>,
       <<"Checkup", PyStr("never")>>,
       <<"Exercise", PyBool(TRUE)>>,
       <<"Skin_Cancer", PyStr("1e999")>>,
       <<"Other_Cancer", PyStr("nan")>>,
       <<"Depression", PyStr("Yes")>>,
       <<"Diabetes", PyFloat(Fin(1, 1))>>,
       <<"Arthritis", None>>,
       <<"Sex", PyStr("1.9")>>,
       <<"Age", PyInt(-5)>>,
       <<"Height", PyStr("250")>>,
       <<"Weight", PyInt(1000)>>,
       <<"BMI", PyStr(" 22 ")>>,
       <<"Smoking", PyBool(FALSE)>>,
       <<"Alcohol", PyFloat(Fin(61, 2))>>,
       <<"Fruit", PyStr("abc")>>,
       <<"Green_Vegetables", PyList("[1]")>>,
       <<"Fried_Potato", PyStr("100")>> >>

\* no key the model knows
ForeignItems ==
    << <<"Shoe_Size", PyInt(43)>>,
       <<"general_health", PyStr("Excellent")>>,
       <<"", PyInt(1)>> >>

\* the bodies clients send, by name
BodyOf ==
    [ empty |-> Object(<< >>),
      healthy |-> Object(HealthyItems),
      shuffled |-> Object(ShuffledItems),
      sparse |-> Object(SparseItems),
      loose |-> Object(LooseItems),
      foreign |-> Object(ForeignItems),
      \* not JSON: request.json raises
      invalid |-> [kind |-> "invalid", items |-> << >>],
      \* a JSON array: request.json returns a list, which has no get
      array |-> [kind |-> "array", items |-> << >>] ]

\* request.json for an object body: the dict of its members; of two members
\* with the same key the later one stays
JsonObject(items) ==
    [key \in {items[i][1] : i \in DOMAIN items} |->
        LET last == CHOOSE i \in DOMAIN items :
                      /\ items[i][1] = key
                      /\ \A j \in DOMAIN items : items[j][1] = key => j <= i
        IN items[last][2]]

\* dict.get(key): the value, None when the key is absent
DictGet(dict, key) == IF key \in DOMAIN dict THEN dict[key] ELSE None

(***************************************************************************)
(* The estimator.  predict_proba(X)[0][1] yields a probability or raises;  *)
(* predict(X)[0] yields a class or raises.                                 *)
(***************************************************************************)
ProbaOutcomes ==
    {[exc |-> "Input X contains infinity", p |-> Zero],
     [exc |-> "", p |-> Fin(12, 100)],
     [exc |-> "", p |-> Fin(45, 100)]}

ClassOutcomes ==
    {[exc |-> "X has 18 features, but the estimator expects 17", c |-> 0],
     [exc |-> "", c |-> 0],
     [exc |-> "", c |-> 1]}

\* an operation not yet called on a vector
Unknown == "?"
UnknownProba == [exc |-> Unknown, p |-> Zero]
UnknownClass == [exc |-> Unknown, c |-> 0]

\* what is known of the estimator on vector x
Known(x) ==
    IF x \in DOMAIN behaviour THEN behaviour[x]
    ELSE [proba |-> UnknownProba, class |-> UnknownClass]

\* behaviour with the entry for x replaced
Revealed(x, entry) ==
    [v \in (DOMAIN behaviour) \cup {x} |->
        IF v = x THEN entry ELSE behaviour[v]]

(***************************************************************************)
(* Responses.                                                              *)
(***************************************************************************)
NoResponse == [status |-> 0]

NotRaised == [op |-> "", message |-> ""]

\* line 175
ModelNotLoaded == [error |-> "Model not loaded", status |-> 500]

\* the except clause replying with a fixed text
ExceptionHidden(message) == [error |-> "Internal Server Error", status |-> 500]

\* the except clause of predict: the message of the exception caught
ExceptionResponse(message) == [error |-> message, status |-> 500]

\* lines 205-220 on the two results of the model
Prediction(prob, class) ==
    [probability |-> prob, class |-> class, risk_level |-> RiskLevel(prob),
     status |-> 200]

(***************************************************************************)
(* Initial states and actions.                                             *)
(***************************************************************************)
GlobalsInit ==
    /\ model = "None"
    /\ MODEL_FEATURES = ModelFeatures
    /\ SCALERS = Scalers

RequestsIdle ==
    /\ pc = [r \in Req |-> "idle"]
    /\ body = [r \in Req |-> ""]
    /\ data = [r \in Req |-> << >>]
    /\ idx = [r \in Req |-> 0]
    /\ input_vector = [r \in Req |-> << >>]
    /\ input_array = [r \in Req |-> << >>]
    /\ response = [r \in Req |-> NoResponse]
    /\ invoked = [r \in Req |-> << >>]
    /\ raised = [r \in Req |-> NotRaised]
    /\ behaviour = << >>

NormIdle ==
    /\ arg_value = None
    /\ arg_feature = "General_Health"
    /\ ret = NotCalled

RiskIdle ==
    /\ prob_in = Zero
    /\ level_out = 0

\* concurrent clients, each sending one of a few bodies
Init ==
    /\ GlobalsInit
    /\ phase = "startup"
    /\ workload = [clients |-> Req,
                   bodies |-> {"shuffled", "sparse", "invalid", "array"}]
    /\ RequestsIdle
    /\ NormIdle
    /\ RiskIdle

\* the module body: the model file is loaded, is missing, or fails to load
LoadModel ==
    /\ phase = "startup"
    /\ \E outcome \in {"loaded", "missing", "load_error"} :
          model' = IF outcome = "loaded" THEN "estimator" ELSE "None"
    /\ phase' = "serving"
    /\ UNCHANGED <<MODEL_FEATURES, SCALERS, workload, req_vars, oracle_vars, norm_vars,
                   risk_vars>>

\* a /predict request arrives; requests are numbered in order of arrival
Receive(r) ==
    /\ phase = "serving"
    /\ pc[r] = "idle"
    /\ r \in workload.clients
    /\ IF r = 1 THEN TRUE ELSE pc[r - 1] # "idle"
    /\ \E b \in workload.bodies : body' = [body EXCEPT ![r] = b]
    /\ pc' = [pc EXCEPT ![r] = "check_model"]
    /\ UNCHANGED <<globals, phase, workload, locals, response, invoked, raised,
                   oracle_vars, norm_vars, risk_vars>>

\* the check left out
ModelMissingNever == FALSE

\* `not model`
ModelMissing == model = "None"

\* if not model: return the error
CheckModel(r) ==
    /\ pc[r] = "check_model"
    /\ IF ModelMissing
       THEN /\ response' = [response EXCEPT ![r] = ModelNotLoaded]
            /\ pc' = [pc EXCEPT ![r] = "done"]
       ELSE /\ pc' = [pc EXCEPT ![r] = "read_json"]
            /\ UNCHANGED response
    /\ UNCHANGED <<globals, phase, workload, body, locals, invoked, raised, oracle_vars,
                   norm_vars, risk_vars>>

\* input_vector as one list of the module, shared by all requests
SharedVector(r) == 1

\* input_vector is a local of the call: each request has its own list
VectorOf(r) == r

\* data = request.json; input_vector = []
ReadJson(r) ==
    /\ pc[r] = "read_json"
    /\ IF BodyOf[body[r]].kind = "invalid"
       THEN /\ response' = [response EXCEPT ![r] =
                   ExceptionResponse("400 Bad Request")]
            /\ pc' = [pc EXCEPT ![r] = "done"]
            /\ UNCHANGED locals
       ELSE /\ data' = [data EXCEPT ![r] = JsonObject(BodyOf[body[r]].items)]
            /\ input_vector' = [input_vector EXCEPT ![VectorOf(r)] = << >>]
            /\ idx' = [idx EXCEPT ![r] = 1]
            /\ pc' = [pc EXCEPT ![r] = "loop"]
            /\ UNCHANGED <<response, input_array>>
    /\ UNCHANGED <<globals, phase, workload, body, invoked, raised, oracle_vars,
                   norm_vars, risk_vars>>

\* input_vector.append(processed_val) left out for a key the body lacks
AppendedIfPresent(vector, raw_val, processed_val) ==
    IF raw_val = None THEN vector ELSE Append(vector, processed_val)

\* input_vector.append(processed_val)
Appended(vector, raw_val, processed_val) == Append(vector, processed_val)

\* the rest of an iteration, given raw_val and processed_val (the float
\* returned, or the exception process_input_value let escape)
StoreProcessed(r, raw_val, processed_val) ==
    IF processed_val.exc # ""
    THEN /\ response' = [response EXCEPT ![r] =
                ExceptionResponse(processed_val.exc)]
         /\ pc' = [pc EXCEPT ![r] = "done"]
         /\ UNCHANGED <<input_vector, idx>>
    ELSE /\ input_vector' = [input_vector EXCEPT ![VectorOf(r)] =
                Appended(@, raw_val, processed_val.f)]
         /\ idx' = [idx EXCEPT ![r] = @ + 1]
         /\ UNCHANGED <<response, pc>>

\* raw_val = data.get(feature); processed_val = process_input_value(...)
ProcessFeature(r, feature, raw_val) ==
    StoreProcessed(r, raw_val, process_input_value(raw_val, feature))

\* one iteration of `for feature in MODEL_FEATURES`
LoopStep(r) ==
    /\ pc[r] = "loop"
    /\ idx[r] <= Len(MODEL_FEATURES)
    /\ IF BodyOf[body[r]].kind = "array"
       THEN /\ response' = [response EXCEPT ![r] = ExceptionResponse(
                   "'list' object has no attribute 'get'")]
            /\ pc' = [pc EXCEPT ![r] = "done"]
            /\ UNCHANGED <<input_vector, idx>>
       ELSE ProcessFeature(r, MODEL_FEATURES[idx[r]],
                           DictGet(data[r], MODEL_FEATURES[idx[r]]))
    /\ UNCHANGED <<globals, phase, workload, body, data, input_array, invoked, raised,
                   oracle_vars, norm_vars, risk_vars>>

\* the except clause after model operation op raised with message
ModelRaised(r, op, message) ==
    /\ raised' = [raised EXCEPT ![r] = [op |-> op, message |-> message]]
    /\ response' = [response EXCEPT ![r] = ExceptionResponse(message)]
    /\ pc' = [pc EXCEPT ![r] = "done"]

\* predict_proba on x gave out
ProbaReturned(r, x, out) ==
    /\ behaviour' = Revealed(x, [Known(x) EXCEPT !.proba = out])
    /\ invoked' = [invoked EXCEPT ![r] = Append(@, "predict_proba")]
    /\ input_array' = [input_array EXCEPT ![r] = x]
    /\ IF out.exc # ""
       THEN ModelRaised(r, "predict_proba", out.exc)
       ELSE /\ pc' = [pc EXCEPT ![r] = "predict"]
            /\ UNCHANGED <<raised, response>>

\* input_array = [input_vector]
\* prediction_prob = model.predict_proba(input_array)[0][1]
CallPredictProba(r) ==
    /\ pc[r] = "loop"
    /\ idx[r] > Len(MODEL_FEATURES)
    /\ IF model = "None"
       THEN /\ response' = [response EXCEPT ![r] = ExceptionResponse(
                   "'NoneType' object has no attribute 'predict_proba'")]
            /\ pc' = [pc EXCEPT ![r] = "done"]
            /\ UNCHANGED <<input_array, invoked, raised, behaviour>>
       ELSE \E out \in ProbaOutcomes :
               /\ Known(input_vector[VectorOf(r)]).proba \in {UnknownProba, out}
               /\ ProbaReturned(r, input_vector[VectorOf(r)], out)
    /\ UNCHANGED <<globals, phase, workload, body, data, idx, input_vector, norm_vars,
                   risk_vars>>

\* predict on x gave out; on a class the threshold chain and the reply follow
ClassReturned(r, x, out) ==
    /\ behaviour' = Revealed(x, [Known(x) EXCEPT !.class = out])
    /\ invoked' = [invoked EXCEPT ![r] = Append(@, "predict")]
    /\ IF out.exc # ""
       THEN ModelRaised(r, "predict", out.exc)
       ELSE /\ response' = [response EXCEPT ![r] =
                   Prediction(Known(x).proba.p, out.c)]
            /\ pc' = [pc EXCEPT ![r] = "done"]
            /\ UNCHANGED raised

\* prediction_class = int(model.predict(input_array)[0]), the mapping of
\* prediction_prob to risk_level, and the reply
CallPredict(r) ==
    /\ pc[r] = "predict"
    /\ \E out \in ClassOutcomes :
          /\ Known(input_array[r]).class \in {UnknownClass, out}
          /\ ClassReturned(r, input_array[r], out)
    /\ UNCHANGED <<globals, phase, workload, body, locals, norm_vars, risk_vars>>

Next ==
    \/ LoadModel
    \/ \E r \in Req :
          \/ Receive(r)
          \/ CheckModel(r)
          \/ ReadJson(r)
          \/ LoopStep(r)
          \/ CallPredictProba(r)
          \/ CallPredict(r)

Spec == Init /\ [][Next]_vars

\* one client, sending any of the bodies
InitSerial ==
    /\ GlobalsInit
    /\ phase = "startup"
    /\ workload = [clients |-> {1}, bodies |-> DOMAIN BodyOf]
    /\ RequestsIdle
    /\ NormIdle
    /\ RiskIdle

SpecSerial == InitSerial /\ [][Next]_vars

\* one call process_input_value(arg_value, arg_feature)
CallNormalizer ==
    /\ ret = NotCalled
    /\ ret' = process_input_value(arg_value, arg_feature)
    /\ UNCHANGED <<globals, phase, workload, req_vars, oracle_vars, arg_value,
                   arg_feature, risk_vars>>

InitNorm ==
    /\ GlobalsInit
    /\ phase = "serving"
    /\ workload = [clients |-> {}, bodies |-> {}]
    /\ RequestsIdle
    /\ arg_value \in Values
    /\ arg_feature \in {ModelFeatures[i] : i \in DOMAIN ModelFeatures}
    /\ ret = NotCalled
    /\ RiskIdle

NextNorm == CallNormalizer

SpecNorm == InitNorm /\ [][NextNorm]_vars

\* one evaluation of the threshold chain on prob_in
MapRisk ==
    /\ level_out = 0
    /\ level_out' = RiskLevel(prob_in)
    /\ UNCHANGED <<globals, phase, workload, req_vars, oracle_vars, norm_vars, prob_in>>

InitRisk ==
    /\ GlobalsInit
    /\ phase = "serving"
    /\ workload = [clients |-> {}, bodies |-> {}]
    /\ RequestsIdle
    /\ NormIdle
    /\ prob_in \in Probabilities
    /\ level_out = 0

NextRisk == MapRisk

SpecRisk == InitRisk /\ [][NextRisk]_vars

(***************************************************************************)
(* Properties of process_input_value, checked under SpecNorm.              *)
(***************************************************************************)
Called == ret # NotCalled

RangeFields ==
    {"Weight", "Height", "BMI", "Age", "Fruit", "Green_Vegetables",
     "Fried_Potato", "Alcohol"}

CategoryFields ==
    {"General_Health", "Checkup", "Diabetes", "Sex", "Exercise", "Smoking"}

\* an int or a finite float
IsNumber(value) ==
    TypeOf(value) = "int" \/ (TypeOf(value) = "float" /\ IsFinite(value[2]))

NumOf(value) ==
    IF TypeOf(value) = "int" THEN Fin(value[2], 1) ELSE value[2]

\* C1: process_input_value never raises to its caller and always returns a
\* finite float, for every feature name and every client-supplied value.
C1_TotalFinite ==
    Called => ret.exc = "" /\ IsFinite(ret.f)

\* the part of C1 the code keeps: no exception escapes, and the result is
\* finite for every feature that has an entry in SCALERS
C1_NeverRaises ==
    Called => /\ ret.exc = ""
              /\ arg_feature \in DOMAIN Scalers => IsFinite(ret.f)

\* x truncates toward zero to the natural number n
TruncatesTo(x, n) ==
    IF n = 0 THEN -x.d < x.n /\ x.n < x.d
    ELSE n * x.d <= x.n /\ x.n < (n + 1) * x.d

\* the labels of table that are the integer string of the truncated value
TruncatedLabels(value, table) ==
    {l \in DOMAIN table :
        /\ Len(l) > 0 /\ IsDigits(l) /\ IntStr(DigitsVal(l)) = l
        /\ float(value).exc = "" /\ IsFinite(float(value).f)
        /\ TruncatesTo(float(value).f, DigitsVal(l))}

\* C4, read literally: for every CategoryMap field, every defined label string
\* yields its configured float and every value that is not a defined label
\* yields 0.0.
C4_UnrecognizedIsZero ==
    (Called /\ arg_feature \in CategoryFields) =>
        LET table == Scalers[arg_feature]
        IN IF str(arg_value) \in DOMAIN table
           THEN ret = Ok(table[str(arg_value)])
           ELSE ret = Ok(Zero)

\* C4, with the fallbacks of the lookup: for every CategoryMap field, a value
\* whose string form is a defined label yields that label's configured float;
\* any other value
\* yields the configured float of the label that is the integer string of the
\* value truncated toward zero when the value is a finite number and that
\* string is a label, else 1.0 when its lowercased string form is "on",
\* "true" or "yes", else 0.0.
C4_CategoryLookup ==
    (Called /\ arg_feature \in CategoryFields) =>
        LET table == Scalers[arg_feature]
            viaInt == TruncatedLabels(arg_value, table)
        IN IF str(arg_value) \in DOMAIN table
           THEN ret = Ok(table[str(arg_value)])
           ELSE IF viaInt # {}
           THEN \A l \in viaInt : ret = Ok(table[l])
           ELSE IF lower(str(arg_value)) \in {"on", "true", "yes"}
           THEN ret = Ok(One)
           ELSE ret = Ok(Zero)

C4_Witness ==
    /\ Called
    /\ arg_feature = "Diabetes"
    /\ arg_value = PyStr("Borderline")
    /\ ret = Ok(Fin(33, 100))

\* C5: for a CategoryMap field, a value that matches no key exactly or after
\* truncation yields 1.0 when its lowercased string form is "on", "true",
\* "yes" or "1", and 0.0 when it is "off", "false", "no" or "0".
C5_TruthyTokens ==
    (/\ Called
     /\ arg_feature \in CategoryFields
     /\ str(arg_value) \notin DOMAIN Scalers[arg_feature]
     /\ TruncatedLabels(arg_value, Scalers[arg_feature]) = {}) =>
        /\ lower(str(arg_value)) \in {"on", "true", "yes", "1"} => ret = Ok(One)
        /\ lower(str(arg_value)) \in {"off", "false", "no", "0"} => ret = Ok(Zero)

AtMost(num) == prob_in.n * 100 <= num * prob_in.d

\* C3: the mapping is a total partition of [0,1] into the levels 1..5, with
\* level 1 iff p <= 0.30, 2 iff 0.30 < p <= 0.45, 3 iff 0.45 < p <= 0.60,
\* 4 iff 0.60 < p <= 0.80, 5 iff p > 0.80; each boundary lands in the lower
\* bucket and the level is non-decreasing in p.
C3_RiskPartition ==
    level_out # 0 =>
        /\ level_out \in 1..5
        /\ level_out = 1 <=> AtMost(30)
        /\ level_out = 2 <=> ~AtMost(30) /\ AtMost(45)
        /\ level_out = 3 <=> ~AtMost(45) /\ AtMost(60)
        /\ level_out = 4 <=> ~AtMost(60) /\ AtMost(80)
        /\ level_out = 5 <=> ~AtMost(80)
        /\ prob_in = Fin(30, 100) => level_out = 1
        /\ prob_in = Fin(45, 100) => level_out = 2
        /\ prob_in = Fin(60, 100) => level_out = 3
        /\ prob_in = Fin(80, 100) => level_out = 4
        /\ \A q \in Probabilities :
              q.n * prob_in.d <= prob_in.n * q.d => RiskLevel(q) <= level_out

C3_Witness ==
    /\ prob_in = Fin(45, 100)
    /\ level_out = 2

(***************************************************************************)
(* The /predict handler, checked under Spec (concurrent requests) and      *)
(* SpecSerial (one request, every body).                                   *)
(***************************************************************************)
\* C2: when the model is not loaded, every /predict request ends in the
\* explicit error response, whatever its body; no model operation is ever
\* invoked and no response carries a prediction.
C2_NoModelNoPrediction ==
    (phase = "serving" /\ model = "None") =>
        \A r \in Req :
            /\ invoked[r] = << >>
            /\ pc[r] \in {"idle", "check_model", "done"}
            /\ pc[r] = "done" =>
                   response[r] = [error |-> "Model not loaded", status |-> 500]

C2_Witness ==
    /\ model = "None"
    /\ \A r \in Req : pc[r] = "done" /\ response[r].status = 500
    /\ body[1] = "sparse"
    /\ body[2] = "invalid"

\* the dict request.json gives for the body of request r
SentDict(r) == JsonObject(BodyOf[body[r]].items)

\* C8: for every input record the vector submitted to the model has exactly
\* 18 entries, and entry i is the normalized value of the i-th name of
\* MODEL_FEATURES, whichever keys the record holds and in whatever order.
C8_VectorShape ==
    \A r \in Req :
        invoked[r] # << >> =>
            /\ Len(input_array[r]) = 18
            /\ \A i \in 1..18 :
                  Ok(input_array[r][i]) =
                      process_input_value(DictGet(SentDict(r), ModelFeatures[i]),
                                          ModelFeatures[i])

C8_Witness ==
    /\ body[1] = "sparse"
    /\ invoked[1] = <<"predict_proba", "predict">>
    /\ Len(input_array[1]) = 18
    /\ input_array[1][9] = Zero
    /\ input_array[1][15] = Fin(1, 2)

\* C9: with the model loaded, when predict_proba or predict raises, the
\* request ends in an error response carrying the exception's message and no
\* prediction; each model operation is invoked at most once per request, and
\* predict is not invoked after predict_proba raised.
C9_ModelFailure ==
    \A r \in Req :
        /\ invoked[r] \in {<< >>, <<"predict_proba">>,
                           <<"predict_proba", "predict">>}
        /\ raised[r] # NotRaised =>
              /\ pc[r] = "done"
              /\ response[r] = [error |-> raised[r].message, status |-> 500]
        /\ raised[r].op = "predict_proba" => invoked[r] = <<"predict_proba">>

C9_Witness ==
    /\ raised[1].op = "predict_proba"
    /\ raised[2].op = "predict"
    /\ pc[1] = "done"
    /\ pc[2] = "done"

\* the value the loop of request r computes for the i-th feature
OwnEntry(r, i) ==
    process_input_value(DictGet(data[r], ModelFeatures[i]), ModelFeatures[i])

\* C10: under any interleaving of requests against a loaded, stateless
\* model, no request modifies the model handle, SCALERS or MODEL_FEATURES;
\* the vector a request is building holds one entry per feature it has
\* visited, the latest computed from its own record; and two requests with
\* identical input get identical responses.
C10_Independent ==
    /\ [][phase = "serving" => UNCHANGED globals]_vars
    /\ [](\A r \in Req :
            (pc[r] = "loop" /\ BodyOf[body[r]].kind = "object") =>
                /\ Len(input_vector[r]) = idx[r] - 1
                /\ idx[r] > 1 =>
                       Ok(input_vector[r][idx[r] - 1]) = OwnEntry(r, idx[r] - 1))
    /\ [](\A r1, r2 \in Req :
            (pc[r1] = "done" /\ pc[r2] = "done" /\ body[r1] = body[r2]) =>
                response[r1] = response[r2])

C10_Witness ==
    /\ model = "estimator"
    /\ pc[1] = "done"
    /\ pc[2] = "done"
    /\ body[1] = body[2]
    /\ response[1].status = 200
    /\ response[2] = response[1]
====
